---- MODULE Spec2Model ----
(***************************************************************************)
(* Palette reduction of an indexed PNG image (src/reduction/palette.rs).   *)
(* optimized_palette is a pure function of an image and a flag; the model  *)
(* draws the image from bounded sets, applies the function, and lets the   *)
(* caller feed a returned image back into the function.                    *)
(* Option<T> is modelled as a sequence: None is <<>>, Some(v) is <<v>>.     *)
(***************************************************************************)
EXTENDS Integers, Sequences, FiniteSets, TLC

VARIABLES png, optimize_alpha, palette_map, byte_map, result, pc, run

vars == <<png, optimize_alpha, palette_map, byte_map, result, pc, run>>

\* ---------------------------------------------------------------- bounds
MaxPal == 2
MaxData == 1
MaxRuns == 2

\* ------------------------------------------------------------ input sets
RGBA8(r, g, b, a) == [r |-> r, g |-> g, b |-> b, a |-> a]

Colors == { RGBA8(0, 0, 0, 255), RGBA8(10, 20, 30, 0), RGBA8(40, 50, 60, 0) }

ByteVals == {0, 1, 27}

BkgdVals == { <<>>, <<0>>, <<2, 9>> }

Depths == {1, 2, 4, 8}

OtherChunk == <<7, 7>>

\* the non-empty sequences over S of length at most n
SeqsUpTo(S, n) == UNION { [1..k -> S] : k \in 1..n }

AuxSet == { [t \in {"pHYs"} |-> OtherChunk] }
          \cup { [t \in {"pHYs", "bKGD"} |-> IF t = "bKGD" THEN b ELSE OtherChunk] : b \in BkgdVals }

\* ------------------------------------------------------ Option and bytes
None == <<>>

Some(v) == <<v>>

IsSome(opt) == Len(opt) > 0

UnwrapOr(opt, d) == IF Len(opt) = 0 THEN d ELSE opt[1]

Idx == 0..255

IdxSeq == [p \in 1..256 |-> p - 1]

Max2(a, b) == IF a >= b THEN a ELSE b

RECURSIVE BitOr(_, _)
BitOr(a, b) == IF a = 0 THEN b
               ELSE IF b = 0 THEN a
               ELSE Max2(a % 2, b % 2) + 2 * BitOr(a \div 2, b \div 2)

Shl8(x, n) == (x * (2 ^ n)) % 256

\* slice::get
Get(palette, i) == IF i < Len(palette) THEN Some(palette[i + 1]) ELSE None

\* aux_headers.get(b"bKGD").and_then(|b| b.first())
bkgd_first(aux_headers) ==
    IF "bKGD" \in DOMAIN aux_headers /\ Len(aux_headers["bKGD"]) > 0
    THEN Some(aux_headers["bKGD"][1])
    ELSE None

\* ------------------------------------------------------ optimized_palette
scan_used(image) ==
    [i \in Idx |->
        \E k \in 1..Len(image.data) :
            LET byte == image.data[k] IN
            CASE image.bit_depth = 8 -> i = byte
              [] image.bit_depth = 4 -> i = byte % 16 \/ i = byte \div 16
              [] image.bit_depth = 2 -> \/ i = byte % 4
                                        \/ i = (byte \div 4) % 4
                                        \/ i = (byte \div 16) % 4
                                        \/ i = byte \div 64]

\* mutant: the luma is added, so that equal alpha sorts by ascending luma
color_val_luma_ascending(palette, i) ==
    LET color == UnwrapOr(Get(palette, i), RGBA8(0, 0, 0, 255)) IN
    color.a * (2 ^ 18) + color.r * 299 + color.g * 587 + color.b * 114

\* mutant: alpha is subtracted, so that opaque colours sort first
color_val_alpha_descending(palette, i) ==
    LET color == UnwrapOr(Get(palette, i), RGBA8(0, 0, 0, 255)) IN
    0 - color.a * (2 ^ 18) - color.r * 299 - color.g * 587 - color.b * 114

color_val(palette, i) ==
    LET color == UnwrapOr(Get(palette, i), RGBA8(0, 0, 0, 255)) IN
    color.a * (2 ^ 18) - color.r * 299 - color.g * 587 - color.b * 114

\* stable sort of the indices 0..255 by the key (sort_by with color_val)
RECURSIVE sort_by_key(_, _)
sort_by_key(keyOf, K) ==
    IF K = {} THEN <<>>
    ELSE LET k == CHOOSE x \in K : \A y \in K : x <= y IN
         SelectSeq(IdxSeq, LAMBDA i : keyOf[i] = k) \o sort_by_key(keyOf, K \ {k})

used_enumerated(image, used, order) ==
    LET sorted == [p \in 1..256 |-> <<order[p], used[order[p]]>>]
        bkgd == bkgd_first(image.aux_headers)
    IN IF IsSome(bkgd) /\ ~used[bkgd[1]]
       THEN Append(sorted, <<bkgd[1], TRUE>>)
       ELSE sorted

\* mutant: fully transparent colours are not reduced into one
effective_color_raw(palette, i, alpha) ==
    UnwrapOr(Get(palette, i), RGBA8(0, 0, 0, 255))

effective_color(palette, i, alpha) ==
    LET color == UnwrapOr(Get(palette, i), RGBA8(0, 0, 0, 255)) IN
    IF alpha /\ color.a = 0 THEN RGBA8(0, 0, 0, color.a) ELSE color

\* position of the first candidate at or after k whose used flag is set
\* (the loop `continue`s over the others); Len(ue) + 1 when there is none
next_used(ue, k) ==
    LET P == { p \in k..Len(ue) : ue[p][2] } IN
    IF P = {} THEN Len(ue) + 1 ELSE CHOOSE p \in P : \A q \in P : p <= q

RECURSIVE assign_indices(_, _, _, _, _, _, _)
assign_indices(palette, alpha, ue, k, pmap, seen, next_index) ==
    IF k > Len(ue) THEN pmap
    ELSE LET i == ue[k][1]
             color == effective_color(palette, i, alpha)
         IN IF color \in DOMAIN seen
            THEN assign_indices(palette, alpha, ue, next_used(ue, k + 1),
                                [pmap EXCEPT ![i] = Some(seen[color])], seen, next_index)
            ELSE assign_indices(palette, alpha, ue, next_used(ue, k + 1),
                                [pmap EXCEPT ![i] = Some(next_index % 256)],
                                seen @@ (color :> (next_index % 256)),
                                (next_index + 1) % 65536)

\* ------------------------------------------------- palette_map_to_byte_map
\* mutant: at 4 bits the high nibble is written two bits too low
byte_map_of_low_shift(image, pmap) ==
    [byte \in Idx |->
        CASE image.bit_depth = 8 -> UnwrapOr(pmap[byte], 0)
          [] image.bit_depth = 4 ->
                BitOr(UnwrapOr(pmap[byte % 16], 0),
                      Shl8(UnwrapOr(pmap[byte \div 16], 0), 2))
          [] image.bit_depth = 2 ->
                BitOr(BitOr(BitOr(UnwrapOr(pmap[byte % 4], 0),
                                  Shl8(UnwrapOr(pmap[(byte \div 4) % 4], 0), 2)),
                            Shl8(UnwrapOr(pmap[(byte \div 16) % 4], 0), 4)),
                      Shl8(UnwrapOr(pmap[byte \div 64], 0), 6))
          [] OTHER -> 0]

byte_map_of(image, pmap) ==
    [byte \in Idx |->
        CASE image.bit_depth = 8 -> UnwrapOr(pmap[byte], 0)
          [] image.bit_depth = 4 ->
                BitOr(UnwrapOr(pmap[byte % 16], 0),
                      Shl8(UnwrapOr(pmap[byte \div 16], 0), 4))
          [] image.bit_depth = 2 ->
                BitOr(BitOr(BitOr(UnwrapOr(pmap[byte % 4], 0),
                                  Shl8(UnwrapOr(pmap[(byte \div 4) % 4], 0), 2)),
                            Shl8(UnwrapOr(pmap[(byte \div 16) % 4], 0), 4)),
                      Shl8(UnwrapOr(pmap[byte \div 64], 0), 6))
          [] OTHER -> 0]

\* mutant: the identity test treats an unmapped index as a change (map_or(false, ..))
palette_map_to_byte_map_strict(image, pmap) ==
    IF \A i \in Idx : (IsSome(pmap[i]) /\ pmap[i][1] = i)
    THEN None
    ELSE Some(byte_map_of(image, pmap))

palette_map_to_byte_map(image, pmap) ==
    IF \A i \in Idx : (IsSome(pmap[i]) => pmap[i][1] = i)
    THEN None
    ELSE Some(byte_map_of(image, pmap))

\* ------------------------------------------------------- reordered_palette
RECURSIVE fill_palette(_, _, _, _)
fill_palette(palette, pmap, k, new_palette) ==
    IF k > Len(palette) \/ k > 256 THEN new_palette
    ELSE fill_palette(palette, pmap, k + 1,
            IF IsSome(pmap[k - 1])
            THEN [new_palette EXCEPT ![pmap[k - 1][1] + 1] = palette[k]]
            ELSE new_palette)

\* mutant: the number of mapped indices is taken for the largest compact index
max_index_of_count(pmap) == Cardinality({ j \in Idx : IsSome(pmap[j]) })

max_index_of(pmap) ==
    LET S == { pmap[i][1] : i \in { j \in Idx : IsSome(pmap[j]) } } IN
    IF S = {} THEN 0 ELSE CHOOSE m \in S : \A x \in S : x <= m

\* mutant: the input palette is returned as it is
reordered_palette_kept(palette, pmap) == palette

reordered_palette(palette, pmap) ==
    fill_palette(palette, pmap, 1,
                 [p \in 1..(max_index_of(pmap) + 1) |-> RGBA8(0, 0, 0, 255)])

\* ---------------------------------------------------- do_palette_reduction
\* mutant: the bKGD chunk is cloned and never rewritten
new_aux_headers_cloned(image, pmap) == image.aux_headers

new_aux_headers(image, pmap) ==
    LET first == bkgd_first(image.aux_headers) IN
    IF IsSome(first) /\ IsSome(pmap[first[1]])
    THEN [image.aux_headers EXCEPT !["bKGD"] = <<pmap[first[1]][1]>>]
    ELSE image.aux_headers

do_palette_reduction(image, pmap, bmap) ==
    IF ~IsSome(bmap) THEN None
    ELSE Some([bit_depth |-> image.bit_depth,
               palette |-> reordered_palette(image.palette, pmap),
               data |-> [k \in 1..Len(image.data) |-> bmap[1][image.data[k]]],
               aux_headers |-> new_aux_headers(image, pmap)])

\* ----------------------------------------------------------- state machine
\* a decoded indexed image has at least one palette entry and one pixel byte
Images == [bit_depth : Depths,
           palette : SeqsUpTo(Colors, MaxPal),
           data : SeqsUpTo(ByteVals, MaxData),
           aux_headers : AuxSet]

Init ==
    /\ png \in Images
    /\ optimize_alpha \in BOOLEAN
    /\ palette_map = [i \in Idx |-> None]
    /\ byte_map = None
    /\ result = None
    /\ pc = "ready"
    /\ run = 1

\* optimized_palette(png, optimize_alpha) on a 1-bit image: early return None
\* (every image of the model is ColorType::Indexed)
Abstain ==
    /\ pc = "ready"
    /\ png.bit_depth = 1
    /\ result' = None
    /\ pc' = "done"
    /\ UNCHANGED <<png, optimize_alpha, palette_map, byte_map, run>>

\* one call of optimized_palette(png, optimize_alpha) on a 2-, 4- or 8-bit image
Optimize ==
    /\ pc = "ready"
    /\ png.bit_depth # 1
    /\ \E used \in {scan_used(png)} :
       \E keyOf \in {[i \in Idx |-> color_val(png.palette, i)]} :
       \E order \in {sort_by_key(keyOf, {keyOf[i] : i \in Idx})} :
       \E ue \in {used_enumerated(png, used, order)} :
       \E pmap \in {assign_indices(png.palette, optimize_alpha, ue, next_used(ue, 1),
                                   [i \in Idx |-> None], <<>>, 0)} :
       \E bmap \in {palette_map_to_byte_map(png, pmap)} :
          /\ palette_map' = pmap
          /\ byte_map' = bmap
          /\ result' = do_palette_reduction(png, pmap, bmap)
    /\ pc' = "done"
    /\ UNCHANGED <<png, optimize_alpha, run>>

\* the caller substitutes the returned image and calls again with the same flag
Rerun ==
    /\ pc = "done"
    /\ IsSome(result)
    /\ run < MaxRuns
    /\ png' = result[1]
    /\ palette_map' = [i \in Idx |-> None]
    /\ byte_map' = None
    /\ result' = None
    /\ pc' = "ready"
    /\ run' = run + 1
    /\ UNCHANGED optimize_alpha

Next == Abstain \/ Optimize \/ Rerun

Spec == Init /\ [][Next]_vars

\* ------------------------------------------------- vocabulary of the claims
Black == RGBA8(0, 0, 0, 255)

Returned == pc = "done" /\ IsSome(result)

Out == result[1]

\* the sub-indices packed in one byte: field f occupies bits f*depth .. f*depth+depth-1
Fields(depth) == 0..((8 \div depth) - 1)

Field(depth, byte, f) == (byte \div (2 ^ (depth * f))) % (2 ^ depth)

\* the palette indices that the pixel bytes of an image reference
PixelRefs(image) ==
    { Field(image.bit_depth, image.data[k], f) :
        k \in 1..Len(image.data), f \in Fields(image.bit_depth) }

HasBkgdIndex(image) ==
    "bKGD" \in DOMAIN image.aux_headers /\ Len(image.aux_headers["bKGD"]) > 0

BkgdRefs(image) ==
    IF HasBkgdIndex(image) THEN {image.aux_headers["bKGD"][1]} ELSE {}

\* the colour an index decodes to under the input palette
ColorAt(palette, i) == IF i < Len(palette) THEN palette[i + 1] ELSE Black

Key(c) == c.a * 262144 - 299 * c.r - 587 * c.g - 114 * c.b

MapOr0(i) == IF IsSome(palette_map[i]) THEN palette_map[i][1] ELSE 0

\* C1: every pixel of a returned image decodes, through the output palette,
\* to the colour the input pixel decodes to through the input palette (opaque
\* black beyond the input palette); with optimize_alpha only the RGB of
\* alpha-0 pixels may differ, and alpha is always equal.
PixelPreservation ==
    Returned =>
        /\ Len(Out.data) = Len(png.data)
        /\ \A k \in 1..Len(png.data) : \A f \in Fields(png.bit_depth) :
            LET o == Field(png.bit_depth, Out.data[k], f)
                cin == ColorAt(png.palette, Field(png.bit_depth, png.data[k], f))
            IN /\ o < Len(Out.palette)
               /\ Out.palette[o + 1].a = cin.a
               /\ \/ Out.palette[o + 1] = cin
                  \/ optimize_alpha /\ cin.a = 0

PixelPreservationWitness ==
    /\ Returned
    /\ \E k \in 1..Len(png.data) : \E f \in Fields(png.bit_depth) :
        /\ Field(png.bit_depth, png.data[k], f) >= Len(png.palette)
        /\ Field(png.bit_depth, Out.data[k], f) # Field(png.bit_depth, png.data[k], f)
    /\ \E k \in 1..Len(png.data) : \E f \in Fields(png.bit_depth) :
        LET i == Field(png.bit_depth, png.data[k], f) IN
        /\ i < Len(png.palette)
        /\ png.palette[i + 1].a = 0
        /\ Field(png.bit_depth, Out.data[k], f) # i

\* C2: calling optimized_palette on an image it returned, with the same flag,
\* returns None.
Idempotence == (run >= 2 /\ pc = "done") => result = None

IdempotenceWitness ==
    /\ run = 2
    /\ pc = "done"
    /\ HasBkgdIndex(png)
    /\ PixelRefs(png) # {}
    /\ BkgdRefs(png) \cap PixelRefs(png) = {}
\* the palette entries of an image that are fully transparent
Transparent(image) == { i \in 0..(Len(image.palette) - 1) : image.palette[i + 1].a = 0 }

InPalette(image) == 0..(Len(image.palette) - 1)

\* C3: two fully transparent entries with different RGB, both referenced by
\* pixel data: with optimize_alpha a new image is returned, both map to one
\* compact index and the output entry there is {0,0,0,0}; without it they stay
\* two distinct output entries with their original RGB.
AlphaCanonicalization ==
    (pc = "done" /\ png.bit_depth # 1) =>
        \A i \in Transparent(png) \cap PixelRefs(png) :
        \A j \in Transparent(png) \cap PixelRefs(png) :
            (png.palette[i + 1] # png.palette[j + 1]) =>
                IF optimize_alpha
                THEN /\ IsSome(result)
                     /\ palette_map[i] = palette_map[j]
                     /\ Out.palette[palette_map[i][1] + 1] = RGBA8(0, 0, 0, 0)
                ELSE IsSome(result) =>
                     /\ palette_map[i] # palette_map[j]
                     /\ Out.palette[palette_map[i][1] + 1] = png.palette[i + 1]
                     /\ Out.palette[palette_map[j][1] + 1] = png.palette[j + 1]

NoDuplicates(image) ==
    \A i \in InPalette(image) : \A j \in InPalette(image) :
        i # j => image.palette[i + 1] # image.palette[j + 1]

SortedByKey(palette) ==
    \A i \in 1..Len(palette) : \A j \in 1..Len(palette) :
        i < j => Key(palette[i]) <= Key(palette[j])

\* C4 as stated: every index referenced, no two entries equal, entries in
\* non-decreasing key order: None is returned, for either flag value.
AlreadyOptimalOriginal ==
    ( /\ pc = "done"
      /\ png.bit_depth # 1
      /\ InPalette(png) \subseteq (PixelRefs(png) \cup BkgdRefs(png))
      /\ NoDuplicates(png)
      /\ SortedByKey(png.palette) ) => result = None

\* C4 (amended): when moreover the pixel data references every palette index
\* and nothing beyond the palette, the bKGD byte (if any) is within the palette
\* and, with optimize_alpha, at most one entry is fully transparent, None is
\* returned.
AlreadyOptimal ==
    ( /\ pc = "done"
      /\ png.bit_depth # 1
      /\ PixelRefs(png) = InPalette(png)
      /\ BkgdRefs(png) \subseteq InPalette(png)
      /\ NoDuplicates(png)
      /\ SortedByKey(png.palette)
      /\ (optimize_alpha => Cardinality(Transparent(png)) <= 1) ) => result = None

AlreadyOptimalWitness ==
    /\ pc = "done"
    /\ run = 1
    /\ png.bit_depth # 1
    /\ Len(png.palette) >= 2
    /\ PixelRefs(png) = InPalette(png)
    /\ HasBkgdIndex(png)
    /\ BkgdRefs(png) \subseteq InPalette(png)
    /\ NoDuplicates(png)
    /\ SortedByKey(png.palette)
    /\ optimize_alpha
    /\ Cardinality(Transparent(png)) = 1
    /\ result = None

\* C5 as stated: the palette of a returned image is never longer than the
\* input palette.
PaletteNeverGrowsOriginal ==
    Returned => Len(Out.palette) <= Len(png.palette)

\* C5 (amended): the palette of a returned image is at most one entry longer
\* than the input palette, and not longer at all when every index referenced
\* by the pixel data or the bKGD byte is within the input palette.
PaletteGrowsByAtMostOne ==
    Returned =>
        /\ Len(Out.palette) <= Len(png.palette) + 1
        /\ ((PixelRefs(png) \cup BkgdRefs(png)) \subseteq InPalette(png))
              => Len(Out.palette) <= Len(png.palette)

PaletteGrowsByAtMostOneWitness ==
    /\ Returned
    /\ HasBkgdIndex(png)
    /\ PixelRefs(png) # {}
    /\ (PixelRefs(png) \cup BkgdRefs(png)) \subseteq InPalette(png)
    /\ Len(Out.palette) = Len(png.palette)
    /\ Len(png.palette) >= 2

\* C6: an image whose palette has an entry referenced neither by a pixel nor
\* by the bKGD byte is never answered with None.
UnusedEntriesRemoved ==
    ( /\ pc = "done"
      /\ png.bit_depth # 1
      /\ \E i \in InPalette(png) : i \notin (PixelRefs(png) \cup BkgdRefs(png)) )
        => IsSome(result)

\* C7: a returned image keeps bit depth, pixel-data length and every chunk but
\* bKGD; a non-empty bKGD chunk becomes the single byte holding the compact
\* index of its first byte, which is always assigned; an empty one is kept.
AuxMetadataEffect ==
    Returned =>
        /\ Out.bit_depth = png.bit_depth
        /\ Len(Out.data) = Len(png.data)
        /\ DOMAIN Out.aux_headers = DOMAIN png.aux_headers
        /\ \A t \in DOMAIN png.aux_headers :
            IF t = "bKGD" /\ Len(png.aux_headers[t]) > 0
            THEN /\ IsSome(palette_map[png.aux_headers[t][1]])
                 /\ Out.aux_headers[t] = <<palette_map[png.aux_headers[t][1]][1]>>
            ELSE Out.aux_headers[t] = png.aux_headers[t]

AuxMetadataEffectWitness ==
    /\ Returned
    /\ HasBkgdIndex(png)
    /\ Len(png.aux_headers["bKGD"]) = 2
    /\ Out.aux_headers["bKGD"] # <<png.aux_headers["bKGD"][1]>>
    /\ Out.aux_headers["pHYs"] = OtherChunk

\* C8: every byte of the translation table unpacks to the sub-indices of the
\* original byte mapped one by one through the old-to-new mapping (0 where
\* the mapping is undefined): no mapped sub-index leaves its field.
PackingSymmetry ==
    (pc = "done" /\ IsSome(byte_map)) =>
        \A b \in Idx : \A f \in Fields(png.bit_depth) :
            Field(png.bit_depth, byte_map[1][b], f)
                = MapOr0(Field(png.bit_depth, b, f))

PackingSymmetryWitness ==
    /\ pc = "done"
    /\ IsSome(byte_map)
    /\ png.bit_depth = 2
    /\ HasBkgdIndex(png)
    /\ BkgdRefs(png) \cap PixelRefs(png) = {}
    /\ \E b \in BkgdRefs(png) :
        /\ b < 4
        /\ MapOr0(b) >= 2
        /\ MapOr0(b) = Len(Out.palette) - 1
        /\ byte_map[1][b * 64 + 27] # b * 64 + 27

\* C9 as stated: the palette of a returned image is in ascending key order.
PaletteSortedOriginal == Returned => SortedByKey(Out.palette)

\* C9 (amended): the palette of a returned image is in ascending key order,
\* except that its last entry may be out of order when no pixel of the
\* returned image references it (it is there for the bKGD byte alone).
PaletteSortedButBkgd ==
    Returned =>
        \A i \in 1..Len(Out.palette) : \A j \in 1..Len(Out.palette) :
            i < j =>
                \/ Key(Out.palette[i]) <= Key(Out.palette[j])
                \/ /\ j = Len(Out.palette)
                   /\ (j - 1) \notin PixelRefs(Out)
                   /\ (j - 1) \in BkgdRefs(Out)

PaletteSortedButBkgdWitness ==
    /\ Returned
    /\ Len(Out.palette) >= 3
    /\ ~SortedByKey(Out.palette)
    /\ Key(Out.palette[1]) < Key(Out.palette[2])

\* C10: in a returned image the assigned compact indices are exactly
\* 0..L-1 for the palette length L, every palette entry is referenced by a
\* pixel or the bKGD byte, every pixel sub-index is below L, and no two
\* palette entries are equal (with optimize_alpha at most one has alpha 0).
OutputMinimal ==
    Returned =>
        LET L == Len(Out.palette)
            assigned == { palette_map[i][1] : i \in { j \in Idx : IsSome(palette_map[j]) } }
        IN /\ assigned = 0..(L - 1)
           /\ PixelRefs(Out) \subseteq 0..(L - 1)
           /\ 0..(L - 1) \subseteq (PixelRefs(Out) \cup BkgdRefs(Out))
           /\ NoDuplicates(Out)
           /\ optimize_alpha => Cardinality(Transparent(Out)) <= 1

OutputMinimalWitness ==
    /\ Returned
    /\ optimize_alpha
    /\ Cardinality(Transparent(png) \cap PixelRefs(png)) = 2
    /\ png.palette[1] # png.palette[2]
    /\ Len(Out.palette) >= 2
    /\ Cardinality(Transparent(Out)) = 1
====
